---------------------------- MODULE Spec2Model ----------------------------
(***************************************************************************)
(* Model of android/generate_jacoco_report.py: one run of main(), from     *)
(* argument parsing to the returned exit code.                             *)
(*                                                                         *)
(* Python strings are sequences of one-character strings, so that          *)
(* str.endswith, the `in` substring test, str.index, slicing and           *)
(* os.path.join are computed character by character.  Python None (and     *)
(* every other falsy value of a string- or list-valued option) is the      *)
(* empty sequence.                                                         *)
(***************************************************************************)
EXTENDS Integers, Sequences, FiniteSets, TLC

(* ------------------------------ bounds --------------------------------- *)
\* longest --class-files list drawn for the report arguments
MaxClassFiles == 2
\* longest --sources list drawn for the source directories
MaxSources == 1
\* most entries in the coverage directory
MaxCovEntries == 3
\* most entries in the sources-json directory
MaxJsonEntries == 3
\* largest exit code the report tool returns
MaxExitCode == 2
\* longest source_dirs list of a sidecar file drawn for the source directories
MaxRawDirs == 2

(* ------------------------- string literals ----------------------------- *)
None == <<>>
DEVICE_CLASS_EXCLUDE_SUFFIX == <<"h","o","s","t","_","f","i","l","t","e","r",".","j","a","r">>
HOST_CLASS_EXCLUDE_SUFFIX == <<"d","e","v","i","c","e","_","f","i","l","t","e","r",".","j","a","r">>
SOURCES_JSON_FILES_SUFFIX == <<"_","_","j","a","c","o","c","o","_","s","o","u","r","c","e","s",".","j","s","o","n">>
COM_GOOGLE == <<"c","o","m","/","g","o","o","g","l","e">>
ORG_CHROMIUM == <<"o","r","g","/","c","h","r","o","m","i","u","m">>
EXEC_SUFFIX == <<".","e","x","e","c">>
DIR_SOURCE_ROOT == <<"/","r">>
DEVICE == <<"d","e","v","i","c","e">>
HOST == <<"h","o","s","t">>
JAVA == <<"j","a","v","a">>
DASH_JAR == <<"-","j","a","r">>
REPORT == <<"r","e","p","o","r","t">>
THIRD_PARTY == <<"t","h","i","r","d","_","p","a","r","t","y">>
JACOCO == <<"j","a","c","o","c","o">>
LIB == <<"l","i","b">>
JACOCOCLI_JAR == <<"j","a","c","o","c","o","c","l","i",".","j","a","r">>
OPT_SOURCEFILES == <<"-","-","s","o","u","r","c","e","f","i","l","e","s">>
OPT_CLASSFILES == <<"-","-","c","l","a","s","s","f","i","l","e","s">>
OPT_HTML == <<"-","-","h","t","m","l">>
OPT_XML == <<"-","-","x","m","l">>
OPT_CSV == <<"-","-","c","s","v">>
COVERAGE_DIR == <<"/","c","o","v">>
OUTPUT_DIR == <<"/","o","u","t">>
OUTPUT_FILE == <<"/","o",".","x","m","l">>
SOURCES_JSON_DIR == <<"/","j","s">>
A_HOST_FILTER_JAR == <<"a","_","h","o","s","t","_","f","i","l","t","e","r",".","j","a","r">>
B_DEVICE_FILTER_JAR == <<"b","_","d","e","v","i","c","e","_","f","i","l","t","e","r",".","j","a","r">>
APP_JAR == <<"a","p","p",".","j","a","r">>
HOST_FILTER_JAR_X == <<"h","o","s","t","_","f","i","l","t","e","r",".","j","a","r",".","x">>
T1_EXEC == <<"t","1",".","e","x","e","c">>
T2_EXEC == <<"t","2",".","e","x","e","c">>
T3_EXEC == <<"t","3",".","e","x","e","c">>
EXEC_TXT == <<"e","x","e","c",".","t","x","t">>
M1_JSON == <<"m","1","_","_","j","a","c","o","c","o","_","s","o","u","r","c","e","s",".","j","s","o","n">>
M2_JSON == <<"m","2","_","_","j","a","c","o","c","o","_","s","o","u","r","c","e","s",".","j","s","o","n">>
OTHER_JSON == <<"o",".","j","s","o","n">>
SRC_CHROMIUM == <<"a","/","o","r","g","/","c","h","r","o","m","i","u","m","/","b">>
SRC_CHROMIUM2 == <<"a","/","o","r","g","/","c","h","r","o","m","i","u","m","/","c">>
SRC_GOOGLE == <<"c","o","m","/","g","o","o","g","l","e","/","c">>
SRC_BOTH == <<"o","r","g","/","c","h","r","o","m","i","u","m","/","c","o","m","/","g","o","o","g","l","e">>
SRC_TWICE == <<"p","/","c","o","m","/","g","o","o","g","l","e","/","c","o","m","/","g","o","o","g","l","e">>
SRC_NONE == <<"x","/","y">>
SRC_ABS == <<"/","q","/","o","r","g","/","c","h","r","o","m","i","u","m">>
EXPLICIT_SRC == <<"/","e","/","s","r","c">>
PARTIAL_PACKAGE_NAMES == <<COM_GOOGLE, ORG_CHROMIUM>>

(* ------------------------- string operations --------------------------- *)
\* s.startswith(p)
StartsWith(s, p) == Len(s) >= Len(p) /\ SubSeq(s, 1, Len(p)) = p

\* s.endswith(suffix)
EndsWith(s, suffix) ==
  Len(s) >= Len(suffix) /\ SubSeq(s, Len(s) - Len(suffix) + 1, Len(s)) = suffix

\* sub occurs in s at 0-based offset i
OccursAt(s, sub, i) ==
  i >= 0 /\ i + Len(sub) <= Len(s) /\ SubSeq(s, i + 1, i + Len(sub)) = sub

\* the Python test `sub in s`
Contains(s, sub) == \E i \in 0..Len(s) : OccursAt(s, sub, i)

\* s.index(sub): the lowest 0-based offset at which sub occurs
Index(s, sub) ==
  CHOOSE i \in 0..Len(s) :
    OccursAt(s, sub, i) /\ \A j \in 0..(i - 1) : ~OccursAt(s, sub, j)

\* the slice s[:n]
Prefix(s, n) == SubSeq(s, 1, n)

\* os.path.join(a, b) on a POSIX host
Join(a, b) ==
  IF StartsWith(b, <<"/">>) THEN b
  ELSE IF a = <<>> \/ EndsWith(a, <<"/">>) THEN a \o b
  ELSE a \o <<"/">> \o b

(* ------------------------- pure functions ------------------------------ *)
\* variant of _CreateClassfileArgs that drops a file when the suffix occurs
\* anywhere in it
RECURSIVE CreateClassfileArgsAnywhere(_, _)
CreateClassfileArgsAnywhere(class_files, exclude_suffix) ==
  IF class_files = <<>> THEN <<>>
  ELSE LET f == Head(class_files)
           rest == CreateClassfileArgsAnywhere(Tail(class_files), exclude_suffix)
       IN IF exclude_suffix # <<>> /\ Contains(f, exclude_suffix)
          THEN rest
          ELSE <<OPT_CLASSFILES, f>> \o rest

\* _CreateClassfileArgs: a None exclude_suffix is the empty sequence
RECURSIVE CreateClassfileArgs(_, _)
CreateClassfileArgs(class_files, exclude_suffix) ==
  IF class_files = <<>> THEN <<>>
  ELSE LET f == Head(class_files)
           rest == CreateClassfileArgs(Tail(class_files), exclude_suffix)
       IN IF exclude_suffix # <<>>
          THEN IF ~EndsWith(f, exclude_suffix)
               THEN <<OPT_CLASSFILES, f>> \o rest
               ELSE rest
          ELSE <<OPT_CLASSFILES, f>> \o rest

\* variant of the class_jar_exclude choice with the two suffixes exchanged
ClassJarExcludeSwapped(report_type) ==
  IF report_type = DEVICE THEN HOST_CLASS_EXCLUDE_SUFFIX
  ELSE IF report_type = HOST THEN DEVICE_CLASS_EXCLUDE_SUFFIX
  ELSE None

\* the class_jar_exclude chosen by _GenerateReportOutputArgs
ClassJarExclude(report_type) ==
  IF report_type = DEVICE THEN DEVICE_CLASS_EXCLUDE_SUFFIX
  ELSE IF report_type = HOST THEN HOST_CLASS_EXCLUDE_SUFFIX
  ELSE None

\* the html report directory of _GenerateReportOutputArgs
ReportDir(a, report_type) == Join(a.output_dir, report_type)

\* the list returned by _GenerateReportOutputArgs
GenerateReportOutputArgs(a, class_files, report_type) ==
  CreateClassfileArgs(class_files, ClassJarExclude(report_type)) \o
    (IF a.format = "html" THEN <<OPT_HTML, ReportDir(a, report_type)>>
     ELSE IF a.format = "xml" THEN <<OPT_XML, a.output_file>>
     ELSE IF a.format = "csv" THEN <<OPT_CSV, a.output_file>>
     ELSE <<>>)

\* _GetFilesWithSuffix over one directory whose walk yields `names` in order
RECURSIVE GetFilesWithSuffix(_, _, _)
GetFilesWithSuffix(root_dir, names, suffix) ==
  IF names = <<>> THEN <<>>
  ELSE (IF EndsWith(Head(names), suffix)
        THEN <<Join(root_dir, Head(names))>> ELSE <<>>)
       \o GetFilesWithSuffix(root_dir, Tail(names), suffix)

\* list.extend(value) for a JSON value: a list adds its elements, a string
\* is iterated and adds its characters
Extend(list, value) ==
  IF value.type = "list" THEN list \o value.val
  ELSE list \o [i \in 1..Len(value.val) |-> <<value.val[i]>>]

\* variant of the marker search that prefers the last entry of the list
RECURSIVE FirstPartialLast(_, _)
FirstPartialLast(path, partials) ==
  IF partials = <<>> THEN None
  ELSE IF Contains(path, partials[Len(partials)]) THEN partials[Len(partials)]
  ELSE FirstPartialLast(path, SubSeq(partials, 1, Len(partials) - 1))

\* the first entry of _PARTIAL_PACKAGE_NAMES that occurs in path, or None
RECURSIVE FirstPartial(_, _)
FirstPartial(path, partials) ==
  IF partials = <<>> THEN None
  ELSE IF Contains(path, Head(partials)) THEN Head(partials)
  ELSE FirstPartial(path, Tail(partials))

\* fixed_dir for a path that contains partial
FixedDir(path, partial) ==
  Join(DIR_SOURCE_ROOT, Prefix(path, Index(path, partial)))

\* the loop that fills fixed_source_dirs
RECURSIVE FixSourceDirs(_)
FixSourceDirs(dirs) ==
  IF dirs = <<>> THEN {}
  ELSE LET partial == FirstPartial(Head(dirs), PARTIAL_PACKAGE_NAMES)
       IN (IF partial # None THEN {FixedDir(Head(dirs), partial)} ELSE {})
          \cup FixSourceDirs(Tail(dirs))

\* the path of jacococli.jar
JacocoCliJar ==
  Join(Join(Join(Join(DIR_SOURCE_ROOT, THIRD_PARTY), JACOCO), LIB), JACOCOCLI_JAR)

\* variant that combines the two exit codes with `and`
OrExitAnd(device_code, host_code) ==
  IF device_code = 0 THEN device_code ELSE host_code

\* device_exit_code or host_exit_code
OrExit(device_code, host_code) ==
  IF device_code # 0 THEN device_code ELSE host_code

\* variant of the argument checks without the --device-or-host check
ParseErrorNoSelector(a) ==
  \/ a.format = "html" /\ a.output_dir = None
  \/ a.format \in {"csv", "xml"} /\ a.output_file = None
  \/ ~(a.sources_json_dir # None \/ a.class_files # None)

\* the argument checks of _ParseArguments: TRUE when parser.error is called
ParseError(a) ==
  \/ a.format = "html" /\ a.output_dir = None
  \/ a.format \in {"csv", "xml"} /\ a.output_file = None
  \/ a.format \in {"csv", "xml"} /\ a.device_or_host = None
       /\ a.sources_json_dir # None
  \/ ~(a.sources_json_dir # None \/ a.class_files # None)

\* all orders in which a set can be iterated
Orders(S) ==
  {s \in [1..Cardinality(S) -> S] : \A i, j \in 1..Cardinality(S) : s[i] = s[j] => i = j}

\* the --sourcefiles arguments for one iteration order
RECURSIVE SourceArgs(_)
SourceArgs(order) ==
  IF order = <<>> THEN <<>>
  ELSE <<OPT_SOURCEFILES, Head(order)>> \o SourceArgs(Tail(order))

(* ------------------------------ inputs --------------------------------- *)
SeqsUpTo(S, n) == UNION {[1..k -> S] : k \in 0..n}

Min(a, b) == IF a <= b THEN a ELSE b

\* the directory listings drawn: the first k <= n entries of pool, in walk order
Listings(pool, n) == {SubSeq(pool, 1, k) : k \in 0..Min(n, Len(pool))}

Range(s) == {s[i] : i \in 1..Len(s)}

CovPool == <<EXEC_TXT, T1_EXEC, T2_EXEC, T3_EXEC>>

JsonPool ==
  << [name |-> OTHER_JSON,
      data |-> [input_path |-> [type |-> "list", val |-> <<HOST_FILTER_JAR_X>>],
                source_dirs |-> <<SRC_GOOGLE>>]],
     [name |-> M1_JSON,
      data |-> [input_path |-> [type |-> "list",
                                val |-> <<A_HOST_FILTER_JAR, B_DEVICE_FILTER_JAR>>],
                source_dirs |-> <<SRC_CHROMIUM, SRC_NONE>>]],
     [name |-> M2_JSON,
      data |-> [input_path |-> [type |-> "str", val |-> APP_JAR],
                source_dirs |-> <<SRC_CHROMIUM2>>]] >>

ClassFilePool == {A_HOST_FILTER_JAR, B_DEVICE_FILTER_JAR, APP_JAR, HOST_FILTER_JAR_X}

SourcesPool == {EXPLICIT_SRC, SRC_CHROMIUM}

RawDirPool ==
  {SRC_CHROMIUM, SRC_CHROMIUM2, SRC_GOOGLE, SRC_BOTH, SRC_TWICE, SRC_NONE, SRC_ABS}

Formats == {"html", "xml", "csv"}

\* the namespaces parser.parse_args() can return
ArgsSet(class_file_lists, source_lists) ==
  [format : Formats,
   device_or_host : {None, DEVICE, HOST},
   output_dir : {None, OUTPUT_DIR},
   output_file : {None, OUTPUT_FILE},
   coverage_dir : {COVERAGE_DIR},
   sources_json_dir : {None, SOURCES_JSON_DIR},
   class_files : class_file_lists,
   sources : source_lists,
   cleanup : BOOLEAN]

Unset == -1

(* ------------------------------- state --------------------------------- *)
VARIABLES
  pc,                 \* position in main()
  args,               \* the parsed namespace
  cov_dir,            \* names under --coverage-dir, in walk order
  json_dir,           \* files under --sources-json-dir, in walk order
  out_dir,            \* --output-dir on disk: exists, entries, reports written
  out_file,           \* TRUE when --output-file exists on disk
  coverage_files, class_files, source_dirs, fixed_source_dirs,
  cmd, device_cmd, host_cmd,
  device_exit_code, host_exit_code, exit_code,
  invocations,        \* history: the cmd_helper.RunCmd calls of the run
  removed,            \* history: the paths given to os.remove
  log                 \* history: the input/output operations of the run

vars ==
  <<pc, args, cov_dir, json_dir, out_dir, out_file, coverage_files, class_files,
    source_dirs, fixed_source_dirs, cmd, device_cmd, host_cmd, device_exit_code,
    host_exit_code, exit_code, invocations, removed, log>>

fs == <<cov_dir, json_dir, out_dir, out_file>>
locals ==
  <<coverage_files, class_files, source_dirs, fixed_source_dirs, cmd, device_cmd,
    host_cmd, device_exit_code, host_exit_code, exit_code>>

\* the locals of main() before any of them is assigned
LocalsUnset ==
  /\ coverage_files = <<>> /\ class_files = <<>> /\ source_dirs = <<>>
  /\ fixed_source_dirs = {} /\ cmd = <<>> /\ device_cmd = <<>> /\ host_cmd = <<>>
  /\ device_exit_code = Unset /\ host_exit_code = Unset /\ exit_code = Unset

HistoryEmpty == invocations = <<>> /\ removed = {} /\ log = <<>>

Init ==
  /\ pc = "parse"
  /\ args \in ArgsSet({None, <<A_HOST_FILTER_JAR, B_DEVICE_FILTER_JAR>>},
                      {None, <<EXPLICIT_SRC>>})
  /\ cov_dir \in Listings(CovPool, MaxCovEntries)
  /\ json_dir \in (IF args.sources_json_dir = None THEN {<<>>}
                   ELSE Listings(JsonPool, MaxJsonEntries))
  /\ out_dir \in (IF args.output_dir = None \/ args.format # "html"
                  THEN {[exists |-> FALSE, entries |-> {}, reports |-> {}]}
                  ELSE {[exists |-> FALSE, entries |-> {}, reports |-> {}],
                        [exists |-> TRUE, entries |-> {}, reports |-> {}],
                        [exists |-> TRUE, entries |-> {DEVICE}, reports |-> {DEVICE}]})
  /\ out_file \in (IF args.output_file = None \/ args.format = "html"
                   THEN {FALSE} ELSE BOOLEAN)
  /\ LocalsUnset
  /\ HistoryEmpty

(* ------------------------------ actions -------------------------------- *)
\* parser.error(): print the message and leave with status 2
ParserError ==
  /\ pc' = "exit"
  /\ exit_code' = 2

\* _ParseArguments, called from main()
ParseArguments ==
  /\ pc = "parse"
  /\ IF ParseError(args)
     THEN ParserError
     ELSE pc' = "find" /\ UNCHANGED exit_code
  /\ UNCHANGED <<args, fs, coverage_files, class_files, source_dirs,
                 fixed_source_dirs, cmd, device_cmd, host_cmd, device_exit_code,
                 host_exit_code, invocations, removed, log>>

\* variant of the test that never reports an empty scan
NoneFoundNever(files) == FALSE

\* the test `not coverage_files`
NoneFound(files) == files = <<>>

\* main(): the scan for .exec files and the check that one was found
FindCoverageFiles ==
  /\ pc = "find"
  /\ coverage_files' = GetFilesWithSuffix(args.coverage_dir, cov_dir, EXEC_SUFFIX)
  /\ log' = Append(log, "walk")
  /\ IF NoneFound(coverage_files')
     THEN ParserError
     ELSE pc' = "load" /\ UNCHANGED exit_code
  /\ UNCHANGED <<args, fs, class_files, source_dirs, fixed_source_dirs, cmd,
                 device_cmd, host_cmd, device_exit_code, host_exit_code,
                 invocations, removed>>

\* json.load of the sidecar file at path f
JsonLoad(f) ==
  (CHOOSE e \in Range(json_dir) : Join(args.sources_json_dir, e.name) = f).data

\* the loop over sources_json_files: class_files and source_dirs after it
RECURSIVE LoadFiles(_, _, _)
LoadFiles(files, classes, dirs) ==
  IF files = <<>> THEN <<classes, dirs>>
  ELSE LET data == JsonLoad(Head(files))
       IN LoadFiles(Tail(files), Extend(classes, data.input_path),
                    Extend(dirs, [type |-> "list", val |-> data.source_dirs]))

\* main(): class_files and source_dirs are read from the sidecar files
LoadSourcesJson ==
  /\ pc = "load"
  /\ IF args.sources_json_dir # None
     THEN LET sources_json_files ==
                GetFilesWithSuffix(args.sources_json_dir,
                                   [i \in 1..Len(json_dir) |-> json_dir[i].name],
                                   SOURCES_JSON_FILES_SUFFIX)
              loaded == LoadFiles(sources_json_files, <<>>, <<>>)
          IN /\ class_files' = loaded[1]
             /\ source_dirs' = loaded[2]
             /\ log' = Append(log, "walk")
     ELSE /\ class_files' = <<>>
          /\ source_dirs' = <<>>
          /\ UNCHANGED log
  /\ pc' = "fix"
  /\ UNCHANGED <<args, fs, coverage_files, fixed_source_dirs, cmd, device_cmd,
                 host_cmd, device_exit_code, host_exit_code, exit_code,
                 invocations, removed>>

\* main(): fixed_source_dirs is filled, then --class-files and --sources are merged
FixAndMerge ==
  /\ pc = "fix"
  /\ class_files' = class_files \o args.class_files
  /\ fixed_source_dirs' = FixSourceDirs(source_dirs) \cup Range(args.sources)
  /\ pc' = "cmd"
  /\ UNCHANGED <<args, fs, coverage_files, source_dirs, cmd, device_cmd, host_cmd,
                 device_exit_code, host_exit_code, exit_code, invocations,
                 removed, log>>

\* main(): the common command; a set is iterated in an unspecified order
BuildCmd ==
  /\ pc = "cmd"
  /\ \E order \in Orders(fixed_source_dirs) :
       cmd' = <<JAVA, DASH_JAR, JacocoCliJar, REPORT>> \o coverage_files
                \o SourceArgs(order)
  /\ pc' = IF args.format = "html" THEN "html_args" ELSE "run_single"
  /\ UNCHANGED <<args, fs, coverage_files, class_files, source_dirs,
                 fixed_source_dirs, device_cmd, host_cmd, device_exit_code,
                 host_exit_code, exit_code, invocations, removed, log>>

\* os.path.exists(report_dir) for the html report directory of report_type
ReportDirExists(dir, report_type) == dir.exists /\ report_type \in dir.entries

\* os.makedirs(report_dir) when it does not exist
MakeReportDir(dir, report_type) ==
  IF ReportDirExists(dir, report_type) THEN dir
  ELSE [dir EXCEPT !.exists = TRUE, !.entries = @ \cup {report_type}]

\* main(), html: device_cmd and host_cmd are built, the report directories made
HtmlArgs ==
  /\ pc = "html_args"
  /\ device_cmd' = cmd \o GenerateReportOutputArgs(args, class_files, DEVICE)
  /\ host_cmd' = cmd \o GenerateReportOutputArgs(args, class_files, HOST)
  /\ out_dir' = MakeReportDir(MakeReportDir(out_dir, DEVICE), HOST)
  /\ log' = log
       \o (IF ReportDirExists(out_dir, DEVICE) THEN <<>> ELSE <<"makedirs">>)
       \o (IF ReportDirExists(MakeReportDir(out_dir, DEVICE), HOST)
           THEN <<>> ELSE <<"makedirs">>)
  /\ pc' = "run_device"
  /\ UNCHANGED <<args, cov_dir, json_dir, out_file, coverage_files, class_files,
                 source_dirs, fixed_source_dirs, cmd, device_exit_code,
                 host_exit_code, exit_code, invocations, removed>>

\* cmd_helper.RunCmd: the report tool returns any exit code and may or may
\* not have written its report
RunCmd(kind, command, code, wrote) ==
  /\ invocations' = Append(invocations,
                           [kind |-> kind, cmd |-> command, code |-> code,
                            wrote |-> wrote])
  /\ log' = Append(log, "run")
  /\ IF args.format = "html"
     THEN /\ out_dir' = [out_dir EXCEPT
                           !.reports = IF wrote THEN @ \cup {kind} ELSE @]
          /\ UNCHANGED out_file
     ELSE /\ out_file' = (out_file \/ wrote)
          /\ UNCHANGED out_dir

\* main(), html: device_exit_code = cmd_helper.RunCmd(device_cmd)
RunDevice ==
  /\ pc = "run_device"
  /\ \E code \in 0..MaxExitCode, wrote \in BOOLEAN :
       /\ RunCmd(DEVICE, device_cmd, code, wrote)
       /\ device_exit_code' = code
  /\ pc' = "run_host"
  /\ UNCHANGED <<args, cov_dir, json_dir, coverage_files, class_files, source_dirs,
                 fixed_source_dirs, cmd, device_cmd, host_cmd, host_exit_code,
                 exit_code, removed>>

\* main(), html: host_exit_code = cmd_helper.RunCmd(host_cmd), then the two
\* codes are combined
RunHost ==
  /\ pc = "run_host"
  /\ \E code \in 0..MaxExitCode, wrote \in BOOLEAN :
       /\ RunCmd(HOST, host_cmd, code, wrote)
       /\ host_exit_code' = code
       /\ exit_code' = OrExit(device_exit_code, code)
  /\ pc' = "cleanup"
  /\ UNCHANGED <<args, cov_dir, json_dir, coverage_files, class_files, source_dirs,
                 fixed_source_dirs, cmd, device_cmd, host_cmd, device_exit_code,
                 removed>>

\* main(), xml and csv: one command for args.device_or_host
RunSingle ==
  /\ pc = "run_single"
  /\ cmd' = cmd \o GenerateReportOutputArgs(args, class_files, args.device_or_host)
  /\ \E code \in 0..MaxExitCode, wrote \in BOOLEAN :
       /\ RunCmd(args.device_or_host, cmd', code, wrote)
       /\ exit_code' = code
  /\ pc' = "cleanup"
  /\ UNCHANGED <<args, cov_dir, json_dir, coverage_files, class_files, source_dirs,
                 fixed_source_dirs, device_cmd, host_cmd, device_exit_code,
                 host_exit_code, removed>>

\* variant of the cleanup that ignores --cleanup
CleanupAlways ==
  /\ pc = "cleanup"
  /\ cov_dir' = SelectSeq(cov_dir,
                   LAMBDA n : Join(args.coverage_dir, n) \notin Range(coverage_files))
  /\ removed' = removed \cup Range(coverage_files)
  /\ log' = log \o [i \in 1..Len(coverage_files) |-> "remove"]
  /\ pc' = "validate"
  /\ UNCHANGED <<args, json_dir, out_dir, out_file, locals, invocations>>

\* main(): os.remove of every coverage file when --cleanup is set
Cleanup ==
  /\ pc = "cleanup"
  /\ IF args.cleanup
     THEN /\ cov_dir' = SelectSeq(cov_dir,
                          LAMBDA n : Join(args.coverage_dir, n) \notin Range(coverage_files))
          /\ removed' = removed \cup Range(coverage_files)
          /\ log' = log \o [i \in 1..Len(coverage_files) |-> "remove"]
     ELSE UNCHANGED <<cov_dir, removed, log>>
  /\ pc' = "validate"
  /\ UNCHANGED <<args, json_dir, out_dir, out_file, locals, invocations>>

\* variant of the output check that is applied whatever the exit code
ValidatedAlways(code, a, dir, file) ==
  IF a.format = "html"
  THEN IF ~dir.exists \/ dir.entries = {} THEN 1 ELSE code
  ELSE IF ~file THEN 1 ELSE code

\* the exit code main() returns after the check of the output
Validated(code, a, dir, file) ==
  IF code = 0
  THEN IF a.format = "html"
       THEN IF ~dir.exists \/ dir.entries = {} THEN 1 ELSE code
       ELSE IF ~file THEN 1 ELSE code
  ELSE code

\* main(): the output is checked and the exit code returned
Validate ==
  /\ pc = "validate"
  /\ exit_code' = Validated(exit_code, args, out_dir, out_file)
  /\ log' = IF exit_code = 0 THEN Append(log, "check") ELSE log
  /\ pc' = "done"
  /\ UNCHANGED <<args, fs, coverage_files, class_files, source_dirs,
                 fixed_source_dirs, cmd, device_cmd, host_cmd, device_exit_code,
                 host_exit_code, invocations, removed>>

Next ==
  \/ ParseArguments
  \/ FindCoverageFiles
  \/ LoadSourcesJson
  \/ FixAndMerge
  \/ BuildCmd
  \/ HtmlArgs
  \/ RunDevice
  \/ RunHost
  \/ RunSingle
  \/ Cleanup
  \/ Validate

Spec == Init /\ [][Next]_vars

(* ---------- specifications that draw the inputs of the pure parts ------- *)
\* a run that has found one coverage file and is about to read the sidecar files
AfterFind(a, sidecars) ==
  /\ pc = "load"
  /\ args = a
  /\ cov_dir = <<T1_EXEC>>
  /\ json_dir = sidecars
  /\ out_dir = [exists |-> FALSE, entries |-> {}, reports |-> {}]
  /\ out_file = FALSE
  /\ coverage_files = <<Join(COVERAGE_DIR, T1_EXEC)>>
  /\ class_files = <<>> /\ source_dirs = <<>> /\ fixed_source_dirs = {}
  /\ cmd = <<>> /\ device_cmd = <<>> /\ host_cmd = <<>>
  /\ device_exit_code = Unset /\ host_exit_code = Unset /\ exit_code = Unset
  /\ invocations = <<>> /\ removed = {} /\ log = <<"walk">>

\* the class files come from --class-files, for every format and report kind
InitClassfile ==
  \E a \in ArgsSet(SeqsUpTo(ClassFilePool, MaxClassFiles) \ {None}, {None}) :
    /\ a.output_dir # None /\ a.output_file # None
    /\ a.sources_json_dir = None /\ ~a.cleanup
    /\ AfterFind(a, <<>>)

NextClassfile ==
  \/ LoadSourcesJson
  \/ FixAndMerge
  \/ BuildCmd
  \/ HtmlArgs
  \/ RunDevice
  \/ RunHost
  \/ RunSingle

SpecClassfile == InitClassfile /\ [][NextClassfile]_vars

\* the raw source directories come from one sidecar file, with any --sources
InitFix ==
  \E a \in ArgsSet({None}, SeqsUpTo(SourcesPool, MaxSources)),
     raw \in SeqsUpTo(RawDirPool, MaxRawDirs) :
    /\ a.format = "html" /\ a.device_or_host = None
    /\ a.output_dir # None /\ a.output_file = None
    /\ a.sources_json_dir # None /\ ~a.cleanup
    /\ AfterFind(a, <<[name |-> M1_JSON,
                      data |-> [input_path |-> [type |-> "list", val |-> <<APP_JAR>>],
                                source_dirs |-> raw]]>>)

NextFix ==
  \/ LoadSourcesJson
  \/ FixAndMerge

SpecFix == InitFix /\ [][NextFix]_vars

(* --------------------------- properties -------------------------------- *)
\* every cmd_helper.RunCmd call of the run has returned
ReportDone == pc \in {"cleanup", "validate", "done"}

\* the output the format asks for is missing: the html output directory is
\* absent or empty, the xml/csv output file is absent
OutputMissing ==
  IF args.format = "html" THEN ~out_dir.exists \/ out_dir.entries = {}
  ELSE ~out_file

\* cmd holds the pair --classfiles f
HasClassfile(command, f) ==
  \E i \in 1..(Len(command) - 1) : command[i] = OPT_CLASSFILES /\ command[i + 1] = f

\* C1: for every format, when every invocation of the report tool exits with 0
\* but the tool produced no output (html: it wrote nothing into the output
\* directory; xml/csv: the output file does not exist), main returns non-zero.
C1_NoOutputIsFailure ==
  (/\ pc = "done"
   /\ invocations # <<>>
   /\ \A i \in 1..Len(invocations) : invocations[i].code = 0
   /\ IF args.format = "html"
      THEN \A i \in 1..Len(invocations) : ~invocations[i].wrote
      ELSE ~out_file)
  => exit_code # 0

\* C2: with format html, a run that reaches report generation runs the tool
\* exactly twice, for device and then for host, whatever the first run returned;
\* the combined exit code is non-zero iff one of the two returned non-zero, and
\* the returned code is non-zero iff one of the two validated results is.
C2_HtmlRunsDeviceAndHost ==
  (args.format = "html" /\ ReportDone) =>
    /\ Len(invocations) = 2
    /\ invocations[1].kind = DEVICE
    /\ invocations[2].kind = HOST
    /\ pc # "done" =>
         (exit_code # 0 <=> \E i \in 1..2 : invocations[i].code # 0)
    /\ pc = "done" =>
         (exit_code # 0 <=> \E i \in 1..2 : invocations[i].code # 0 \/ OutputMissing)

C2_Witness ==
  /\ pc = "done" /\ args.format = "html" /\ Len(invocations) = 2
  /\ invocations[1].code # 0 /\ invocations[2].code = 0
  /\ exit_code # 0

\* the checks of the configuration invariant, stated option by option
ConfigInvariant(a) ==
  /\ a.format = "html" => a.output_dir # None
  /\ a.format \in {"xml", "csv"} => a.output_file # None
  /\ (a.format \in {"xml", "csv"} /\ a.sources_json_dir # None)
       => a.device_or_host # None
  /\ a.sources_json_dir # None \/ a.class_files # None

\* no entry of the coverage directory ended in .exec when it was scanned
NoExecOnDisk ==
  /\ removed = {}
  /\ \A n \in Range(cov_dir) : ~EndsWith(n, <<".", "e", "x", "e", "c">>)

\* C3: for a configuration that passes validation, when the scan of the
\* coverage directory finds no file ending in .exec the run ends with a
\* non-zero exit code, without any tool invocation or file deletion.
C3_NoCoverageIsFatal ==
  (ConfigInvariant(args) /\ NoExecOnDisk /\ pc \notin {"parse", "find"}) =>
    /\ pc = "exit"
    /\ exit_code # 0
    /\ invocations = <<>>
    /\ \A i \in 1..Len(log) : log[i] \notin {"run", "remove", "makedirs"}

C3_Witness ==
  /\ pc = "exit" /\ ConfigInvariant(args) /\ NoExecOnDisk
  /\ cov_dir # <<>> /\ log = <<"walk">>

\* a path the report kind leaves out
Excluded(f, kind) ==
  \/ kind = DEVICE
       /\ EndsWith(f, <<"h","o","s","t","_","f","i","l","t","e","r",".","j","a","r">>)
  \/ kind = HOST
       /\ EndsWith(f, <<"d","e","v","i","c","e","_","f","i","l","t","e","r",".","j","a","r">>)

\* the arguments of a command between the common part and the output pair
ClassfileArgs(command) ==
  SubSeq(command,
         4 + Len(coverage_files) + 2 * Cardinality(fixed_source_dirs) + 1,
         Len(command) - 2)

\* each path paired with --classfiles, in order
Paired(files) ==
  [i \in 1..(2 * Len(files)) |->
     IF i % 2 = 1 THEN OPT_CLASSFILES ELSE files[i \div 2]]

\* C4: for every list of class files and every report kind, the --classfiles
\* arguments of a command are the input paths, in input order and each paired
\* with --classfiles, without those that end in the kind's exclusion suffix
\* (device: host_filter.jar, host: device_filter.jar); without a kind every
\* path is kept.
C4_ClassfileArgs ==
  \A i \in 1..Len(invocations) :
    ClassfileArgs(invocations[i].cmd)
      = Paired(SelectSeq(class_files,
                         LAMBDA f : ~Excluded(f, invocations[i].kind)))

C4_Witness ==
  \E i \in 1..Len(invocations) :
    /\ invocations[i].kind = DEVICE
    /\ Len(class_files) = 2
    /\ Excluded(class_files[1], DEVICE)
    /\ ~Excluded(class_files[2], DEVICE)
    /\ Contains(class_files[2], <<"h","o","s","t","_","f","i","l","t","e","r">>)

\* the run of the example: xml, --device-or-host device, the two class files
C5_Case ==
  /\ args.format = "xml" /\ args.device_or_host = DEVICE
  /\ class_files = <<A_HOST_FILTER_JAR, B_DEVICE_FILTER_JAR>>

\* C5 as stated: in that run the device command includes a_host_filter.jar
\* and leaves out b_device_filter.jar.
C5_IncludesHostFilterJar ==
  \A i \in 1..Len(invocations) :
    C5_Case =>
      /\ HasClassfile(invocations[i].cmd, A_HOST_FILTER_JAR)
      /\ ~HasClassfile(invocations[i].cmd, B_DEVICE_FILTER_JAR)

\* C5: in that run the single device command includes b_device_filter.jar and
\* leaves out a_host_filter.jar.
C5_IncludesDeviceFilterJar ==
  \A i \in 1..Len(invocations) :
    C5_Case =>
      /\ Len(invocations) = 1
      /\ invocations[i].kind = DEVICE
      /\ HasClassfile(invocations[i].cmd, B_DEVICE_FILTER_JAR)
      /\ ~HasClassfile(invocations[i].cmd, A_HOST_FILTER_JAR)

C5_Witness == Len(invocations) = 1 /\ C5_Case /\ pc = "done"

\* C6 as stated: a coverage file is removed only with --cleanup and only after
\* report generation succeeded: after the invocations and after the check of
\* the output, and never in a run that ends with a non-zero exit code.
C6_RemovedOnlyAfterSuccess ==
  removed # {} =>
    /\ args.cleanup
    /\ pc = "done"
    /\ exit_code = 0

\* C6: a coverage file is removed only with --cleanup and only after every
\* invocation of the report tool has returned; with --cleanup every discovered
\* coverage file is removed, whatever the invocations returned, before the
\* check of the output.
C6_RemovedOnlyAfterInvocations ==
  /\ removed # {} => (args.cleanup /\ pc \in {"validate", "done"})
  /\ ~args.cleanup => \A i \in 1..Len(log) : log[i] # "remove"
  /\ (args.cleanup /\ pc \in {"validate", "done"}) => removed = Range(coverage_files)
  /\ \A i, j \in 1..Len(log) :
       (log[i] = "remove" /\ i < j) => log[j] \in {"remove", "check"}
  /\ \A i, j \in 1..Len(log) :
       (log[i] = "check" /\ i < j) => log[j] # "remove"

C6_Witness ==
  /\ pc = "done" /\ args.cleanup /\ exit_code # 0
  /\ Cardinality(removed) = 2
  /\ \E i \in 1..Len(invocations) : invocations[i].code # 0

\* C7: a configuration that violates the configuration invariant ends the run
\* with a non-zero exit code before any scan, directory creation, invocation or
\* deletion; a run that reaches the scan for coverage files satisfies it.
C7_InvalidConfigurationStops ==
  /\ ~ConfigInvariant(args) =>
       /\ pc \in {"parse", "exit"}
       /\ pc = "exit" => exit_code # 0
       /\ log = <<>> /\ invocations = <<>> /\ removed = {}
  /\ pc \notin {"parse", "exit"} => ConfigInvariant(args)

C7_Witness ==
  /\ pc = "exit" /\ exit_code # 0
  /\ args.format = "xml" /\ args.output_file # None
  /\ args.sources_json_dir # None /\ args.device_or_host = None
  /\ args.class_files # None

\* the sidecar files the scan of --sources-json-dir finds
SidecarsFound ==
  IF args.sources_json_dir = None THEN <<>>
  ELSE SelectSeq(json_dir, LAMBDA e : EndsWith(e.name, SOURCES_JSON_FILES_SUFFIX))

\* the entries of an input_path value: the string itself, or the list's elements
InputPathEntries(value) ==
  IF value.type = "str" THEN {value.val} ELSE Range(value.val)

\* C8: after the sidecar files are read, the class files are exactly the
\* input_path entries of the files found, each a whole element, and the raw
\* source directories are exactly their source_dirs entries.
C8_AggregatesWholeEntries ==
  pc = "fix" =>
    /\ Range(class_files)
         = UNION {InputPathEntries(e.data.input_path) : e \in Range(SidecarsFound)}
    /\ Range(source_dirs)
         = UNION {Range(e.data.source_dirs) : e \in Range(SidecarsFound)}

\* C9: with format xml or csv, a run that reaches report generation runs the
\* tool exactly once, for the configured --device-or-host (or none), and a
\* non-zero exit code of that run is the exit code main returns; only a 0 is
\* turned into non-zero, when the output file is missing.
C9_SingleRunCodeIsReturned ==
  (args.format \in {"xml", "csv"} /\ ReportDone) =>
    /\ Len(invocations) = 1
    /\ invocations[1].kind = args.device_or_host
    /\ (pc = "done" /\ invocations[1].code # 0) => exit_code = invocations[1].code
    /\ (pc = "done" /\ invocations[1].code = 0) => (exit_code # 0 <=> OutputMissing)

C9_Witness ==
  /\ pc = "done" /\ args.format = "csv" /\ Len(invocations) = 1
  /\ invocations[1].code = 2 /\ ~out_file /\ exit_code = 2

\* the marker that decides a path: com/google when it occurs, else org/chromium
DecidingMarker(path) ==
  IF Contains(path, <<"c","o","m","/","g","o","o","g","l","e">>)
  THEN <<"c","o","m","/","g","o","o","g","l","e">>
  ELSE <<"o","r","g","/","c","h","r","o","m","i","u","m">>

HasMarker(path) ==
  \/ Contains(path, <<"c","o","m","/","g","o","o","g","l","e">>)
  \/ Contains(path, <<"o","r","g","/","c","h","r","o","m","i","u","m">>)

\* the offset of the first occurrence of marker in path
FirstOffset(path, marker) ==
  CHOOSE i \in 0..Len(path) :
    /\ OccursAt(path, marker, i)
    /\ \A j \in 0..Len(path) : OccursAt(path, marker, j) => i <= j

\* the set the normalization is to yield
Normalized(raw, explicit) ==
  {Join(DIR_SOURCE_ROOT, SubSeq(d, 1, FirstOffset(d, DecidingMarker(d)))) :
     d \in {x \in Range(raw) : HasMarker(x)}}
  \cup Range(explicit)

Reverse(s) == [i \in 1..Len(s) |-> s[Len(s) + 1 - i]]

\* C10: the normalized set is the project root joined with the part of each
\* raw directory before the first occurrence of its highest-priority marker
\* (com/google before org/chromium), together with the --sources entries as
\* given; a directory without a marker adds nothing, duplicates collapse, and
\* the set does not depend on the order of the raw list.
C10_NormalizedSourceDirs ==
  pc = "cmd" =>
    /\ fixed_source_dirs = Normalized(source_dirs, args.sources)
    /\ fixed_source_dirs = FixSourceDirs(Reverse(source_dirs)) \cup Range(args.sources)

C10_Witness ==
  /\ pc = "cmd"
  /\ source_dirs = <<SRC_BOTH, SRC_NONE>>
  /\ args.sources = <<SRC_CHROMIUM>>
  /\ Cardinality(fixed_source_dirs) = 2

=============================================================================
